---- MODULE Spec2Model ----
(***************************************************************************)
(* Model of psychopy/visual/stim3d.py: the rigid body pose with its lazily *)
(* recomputed model matrices, the table of lighting shaders, the draw      *)
(* methods of the 3D stimuli, the colours of materials and lights and the  *)
(* loading of mesh stimuli and their material libraries.                   *)
(*                                                                         *)
(* Numbers are exact.  Positions are integer vectors.  Orientation         *)
(* quaternions are stored in HALVES: the tuple <<x, y, z, w>> stands for   *)
(* the quaternion (x/2, y/2, z/2, w/2), so the default orientation         *)
(* (0, 0, 0, 1) is <<0, 0, 0, 2>>.  The unit quaternions with this form    *)
(* are the 24 Hurwitz units; their products, conjugates and rotation       *)
(* matrices are again exact (and exact in float32, the type the code       *)
(* computes in).                                                           *)
(***************************************************************************)
EXTENDS Integers, Sequences, FiniteSets, TLC

VARIABLES
    thePose,        \* the RigidBodyPose under test: record of its fields
    lastOp,         \* name of the last operation on thePose
    prevOp,         \* name of the operation before it
    returned,       \* value returned by the last matrix read
    lastFwd,        \* forward matrix returned by the last forward read since
                    \* the last assignment to pos/ori (None when there is none)
    nFwdReads,      \* forward reads since the last assignment to pos/ori
    nFwd,           \* recomputations of _modelMatrix since that assignment
    nInv,           \* recomputations of _invModelMatrix since that assignment
    poseRaised,     \* exception the last operation on thePose ended with
    operand,        \* pose algebra: the pose P the operators are applied to
    otherPose,      \* pose algebra: the second operand of a binary operation
    product,        \* pose algebra: result of the last operator expression
    algOp,          \* pose algebra: name of the last operator expression
    algRaised,      \* pose algebra: exception the last expression ended with
    _material_shaders_, \* the module's dictionary of lighting shaders
    winLights,      \* len(win.lights)
    winDraw3d,      \* win.draw3d
    glStackDepth,   \* depth of the GL matrix stack above the caller's
    stim,           \* the stimulus: record of its fields
    stimOp,         \* name of the last operation on the stimulus
    glCalls,        \* GL and gltools calls the last operation made, in order
    shaderKeys,     \* keys the last operation looked up in _material_shaders_
    raised,         \* exception the last operation ended with (None: none)
    theMaterial,    \* the PhongMaterial whose colours are under test
    matOp,          \* name of the last operation on theMaterial
    theLight,       \* the LightSource under test: record of its fields
    lightOp,        \* name of the last operation on theLight
    lightRaised,    \* exception the last operation on theLight ended with
    lightReturned,  \* value the last read of an attribute of theLight returned
    mtlFile,        \* the lines of the material library being loaded
    loaded,         \* outcome of _loadMtlLib(mtlFile)
    built,          \* outcome of the last ObjMeshStim(...) expression
    loadOp          \* name of the last loading operation

poseVars == <<thePose, lastOp, prevOp, returned, lastFwd, nFwdReads, nFwd, nInv,
              poseRaised>>
algVars == <<operand, otherPose, product, algOp, algRaised>>
drawVars == <<_material_shaders_, winLights, winDraw3d, glStackDepth, stim,
              stimOp, glCalls, shaderKeys, raised>>
matVars == <<theMaterial, matOp>>
lightVars == <<theLight, lightOp, lightRaised, lightReturned>>
loadVars == <<mtlFile, loaded, built, loadOp>>
auxVars == <<matVars, lightVars, loadVars>>
vars == <<thePose, lastOp, prevOp, returned, lastFwd, nFwdReads, nFwd, nInv,
          poseRaised, operand, otherPose, product, algOp, algRaised,
          _material_shaders_, winLights, winDraw3d, glStackDepth, stim,
          stimOp, glCalls, shaderKeys, raised,
          theMaterial, matOp, theLight, lightOp, lightRaised, lightReturned,
          mtlFile, loaded, built, loadOp>>

None == "None"

----------------------------------------------------------------------------
(* Bounds of the model. *)

\* largest absolute value of a position coordinate given as input
MaxCoord == 1
\* forward reads explored between two assignments to pos/ori
MaxReads == 2
\* recomputations counted between two assignments to pos/ori
MaxRecompute == 2

Coord == (0 - MaxCoord)..MaxCoord

\* positions assigned to the pose under test
PosInputs == {<<x, 0, 0>> : x \in Coord}

\* positions of the pose algebra
Positions == {<<x, y, z>> : x \in Coord, y \in Coord, z \in Coord}

----------------------------------------------------------------------------
(* psychopy.tools.mathtools, as far as the poses use it. *)

Sign == {-1, 1}

\* the unit quaternions <<x, y, z, w>> whose components are halves
UnitQuats ==
    {q \in [1..4 -> -2..2] :
        q[1] * q[1] + q[2] * q[2] + q[3] * q[3] + q[4] * q[4] = 4
        /\ (\A i \in 1..4 : q[i] \in {-2, 0, 2} \/ \A j \in 1..4 : q[j] \in Sign)}

IdentityOri == <<0, 0, 0, 2>>

\* mt.multQuat(q0, q1): the Hamilton product q0 * q1 (components in halves)
multQuat(q0, q1) ==
    << (q0[2] * q1[3] - q0[3] * q1[2] + q0[1] * q1[4] + q1[1] * q0[4]) \div 2,
       (q0[3] * q1[1] - q0[1] * q1[3] + q0[2] * q1[4] + q1[2] * q0[4]) \div 2,
       (q0[1] * q1[2] - q0[2] * q1[1] + q0[3] * q1[4] + q1[3] * q0[4]) \div 2,
       (q0[4] * q1[4] - q0[1] * q1[1] - q0[2] * q1[2] - q0[3] * q1[3]) \div 2 >>

\* mt.invertQuat(q): the conjugate of q over its squared norm; the norm of a
\* unit quaternion is 1
invertQuat(q) == <<0 - q[1], 0 - q[2], 0 - q[3], q[4]>>

\* mt.quatFromAxisAngle(axis, angle, degrees=True) for the axis-angle pairs
\* whose quaternion is exact
AxisAngles ==
    { <<<<1, 0, 0>>, 0>>, <<<<1, 0, 0>>, 180>>, <<<<0, 1, 0>>, 180>>,
      <<<<1, 1, 1>>, 120>> }

quatFromAxisAngle(axis, angle) ==
    CASE angle = 0 -> IdentityOri
      [] angle = 180 -> <<2 * axis[1], 2 * axis[2], 2 * axis[3], 0>>
      [] angle = 120 -> <<axis[1], axis[2], axis[3], 1>>

\* rotation matrix of the unit quaternion q (components in halves)
quatToMatrix(q) ==
    << << 1 - (q[2] * q[2] + q[3] * q[3]) \div 2,
          (q[1] * q[2] - q[3] * q[4]) \div 2,
          (q[1] * q[3] + q[2] * q[4]) \div 2 >>,
       << (q[1] * q[2] + q[3] * q[4]) \div 2,
          1 - (q[1] * q[1] + q[3] * q[3]) \div 2,
          (q[2] * q[3] - q[1] * q[4]) \div 2 >>,
       << (q[1] * q[3] - q[2] * q[4]) \div 2,
          (q[2] * q[3] + q[1] * q[4]) \div 2,
          1 - (q[1] * q[1] + q[2] * q[2]) \div 2 >> >>

\* mt.posOriToMatrix(pos, ori): the 4x4 matrix, as the 16 numbers of its rows
\* one after the other (a row-major ndarray), with the rotation of ori in its
\* upper left 3x3 block and pos as its translation column
posOriToMatrix(pos, ori) ==
    LET R == quatToMatrix(ori)
    IN  << R[1][1], R[1][2], R[1][3], pos[1],
           R[2][1], R[2][2], R[2][3], pos[2],
           R[3][1], R[3][2], R[3][3], pos[3],
           0, 0, 0, 1 >>

\* element (i, j) of a 4x4 matrix
At(m, i, j) == m[4 * (i - 1) + j]

\* mt.invertMatrix(m) of a rigid body transformation: the transposed
\* rotation, and the translation rotated by it and negated
invertMatrix(m) ==
    LET t(i) == 0 - (At(m, 1, i) * At(m, 1, 4) + At(m, 2, i) * At(m, 2, 4)
                        + At(m, 3, i) * At(m, 3, 4))
    IN  << At(m, 1, 1), At(m, 2, 1), At(m, 3, 1), t(1),
           At(m, 1, 2), At(m, 2, 2), At(m, 3, 2), t(2),
           At(m, 1, 3), At(m, 2, 3), At(m, 3, 3), t(3),
           0, 0, 0, 1 >>

Is4x4(m) == Len(m) = 16

Identity4 == <<1, 0, 0, 0,  0, 1, 0, 0,  0, 0, 1, 0,  0, 0, 0, 1>>

MatMul(a, b) ==
    [k \in 1..16 |->
        LET i == ((k - 1) \div 4) + 1
            j == ((k - 1) % 4) + 1
        IN  At(a, i, 1) * At(b, 1, j) + At(a, i, 2) * At(b, 2, j)
                + At(a, i, 3) * At(b, 3, j) + At(a, i, 4) * At(b, 4, j)]

\* a is the 4x4 inverse of the 4x4 matrix m
IsInverseOf(a, m) ==
    /\ Is4x4(a)
    /\ MatMul(a, m) = Identity4
    /\ MatMul(m, a) = Identity4

----------------------------------------------------------------------------
(* class RigidBodyPose *)

\* np.zeros(4, dtype=np.float32): a vector of four zeros
Zeros4 == <<0, 0, 0, 0>>

\* RigidBodyPose.__init__(pos, ori)
RigidBodyPose(pos, ori) ==
    [ _pos |-> pos,
      _ori |-> ori,
      _modelMatrix |-> posOriToMatrix(pos, ori),
      _invModelMatrix |-> Zeros4,
      _matrixNeedsUpdate |-> FALSE,
      _invMatrixNeedsUpdate |-> FALSE ]

\* a pos setter that marks only the forward matrix for recomputation
setPos_ForwardFlagOnly(self, value) ==
    [self EXCEPT !._pos = value,
                 !._matrixNeedsUpdate = TRUE]

\* the pos setter
setPos(self, value) ==
    [self EXCEPT !._pos = value,
                 !._matrixNeedsUpdate = TRUE,
                 !._invMatrixNeedsUpdate = TRUE]

\* the ori setter
setOri(self, value) ==
    [self EXCEPT !._ori = value,
                 !._matrixNeedsUpdate = TRUE,
                 !._invMatrixNeedsUpdate = TRUE]

\* RigidBodyPose.setOriAxisAngle(axis, angle)
setOriAxisAngle(self, axis, angle) ==
    setOri(self, quatFromAxisAngle(axis, angle))

\* a __mul__ that multiplies the orientations in the reverse order
Mul_ReversedQuat(self, other) ==
    RigidBodyPose(<<self._pos[1] + other._pos[1],
                    self._pos[2] + other._pos[2],
                    self._pos[3] + other._pos[3]>>,
                  multQuat(other._ori, self._ori))

\* RigidBodyPose.__mul__(self, other)
Mul(self, other) ==
    RigidBodyPose(<<self._pos[1] + other._pos[1],
                    self._pos[2] + other._pos[2],
                    self._pos[3] + other._pos[3]>>,
                  multQuat(self._ori, other._ori))

Abs(x) == IF x < 0 THEN 0 - x ELSE x

\* np.isclose(a, b) for one pair of components counted in 1/unit:
\* |a - b| <= atol + rtol * |b| with atol = 1e-8 and rtol = 1e-5
isclose(a, b, unit) == 100000000 * Abs(a - b) <= unit + 1000 * Abs(b)

\* np.isclose(a, b) for two arrays: the array of the component results
iscloseArray(a, b, unit) == [i \in 1..Len(a) |-> isclose(a[i], b[i], unit)]

ValueErrorAmbiguous == "ValueError: truth value of an array is ambiguous"

\* bool(a) of a numpy array a, given as the sequence of the truth values of
\* its elements: an array of more than one element has no truth value
TruthValue(a) ==
    IF Len(a) > 1 THEN [raised |-> ValueErrorAmbiguous, value |-> FALSE]
    ELSE IF Len(a) = 1 THEN [raised |-> None, value |-> a[1]]
    ELSE [raised |-> None, value |-> FALSE]

\* the truth values of the elements of an array of floats
NonZero(a) == [i \in 1..Len(a) |-> a[i] # 0]

\* RigidBodyPose.isEqual(self, other): x and y evaluates bool(x), then
\* returns x when it is false and y otherwise
isEqual(self, other) ==
    LET x == iscloseArray(self._pos, other._pos, 1)
        y == iscloseArray(self._ori, other._ori, 2)
        t == TruthValue(x)
    IN  IF t.raised # None THEN [raised |-> t.raised, ret |-> None]
        ELSE IF ~t.value THEN [raised |-> None, ret |-> x]
        ELSE [raised |-> None, ret |-> y]

\* an __invert__ that inverts the orientation and keeps the position
Invert_KeepsPos(self) ==
    RigidBodyPose(self._pos, invertQuat(self._ori))

\* RigidBodyPose.__invert__(self)
Invert(self) ==
    RigidBodyPose(<<0 - self._pos[1], 0 - self._pos[2], 0 - self._pos[3]>>,
                  invertQuat(self._ori))

\* RigidBodyPose.invert(self): in place
invert(self) ==
    [self EXCEPT !._ori = invertQuat(self._ori),
                 !._pos = <<0 - self._pos[1], 0 - self._pos[2],
                            0 - self._pos[3]>>]

\* a getModelMatrix that recomputes the forward matrix and leaves its dirty
\* flag set
getModelMatrix_KeepsDirty(self, inverse) ==
    LET fwd == IF self._matrixNeedsUpdate
               THEN [self EXCEPT
                        !._modelMatrix = posOriToMatrix(self._pos, self._ori)]
               ELSE self
        inv == IF inverse /\ fwd._invMatrixNeedsUpdate
               THEN [fwd EXCEPT
                        !._invModelMatrix = invertMatrix(fwd._modelMatrix),
                        !._invMatrixNeedsUpdate = FALSE]
               ELSE fwd
    IN  [ pose |-> inv,
          ret |-> IF inverse THEN inv._invModelMatrix ELSE inv._modelMatrix,
          fwdComputed |-> IF self._matrixNeedsUpdate THEN 1 ELSE 0,
          invComputed |-> IF inverse /\ fwd._invMatrixNeedsUpdate
                          THEN 1 ELSE 0 ]

\* a getModelMatrix that brings the inverse up to date on every call
getModelMatrix_EagerInverse(self, inverse) ==
    LET fwd == IF self._matrixNeedsUpdate
               THEN [self EXCEPT
                        !._modelMatrix = posOriToMatrix(self._pos, self._ori),
                        !._matrixNeedsUpdate = FALSE]
               ELSE self
        inv == IF fwd._invMatrixNeedsUpdate
               THEN [fwd EXCEPT
                        !._invModelMatrix = invertMatrix(fwd._modelMatrix),
                        !._invMatrixNeedsUpdate = FALSE]
               ELSE fwd
    IN  [ pose |-> inv,
          ret |-> IF inverse THEN inv._invModelMatrix ELSE inv._modelMatrix,
          fwdComputed |-> IF self._matrixNeedsUpdate THEN 1 ELSE 0,
          invComputed |-> IF fwd._invMatrixNeedsUpdate THEN 1 ELSE 0 ]

\* RigidBodyPose.getModelMatrix(inverse): the pose after the call, the value
\* returned and the number of times each matrix was computed
getModelMatrix(self, inverse) ==
    LET fwd == IF self._matrixNeedsUpdate
               THEN [self EXCEPT
                        !._modelMatrix = posOriToMatrix(self._pos, self._ori),
                        !._matrixNeedsUpdate = FALSE]
               ELSE self
        inv == IF inverse /\ fwd._invMatrixNeedsUpdate
               THEN [fwd EXCEPT
                        !._invModelMatrix = invertMatrix(fwd._modelMatrix),
                        !._invMatrixNeedsUpdate = FALSE]
               ELSE fwd
    IN  [ pose |-> inv,
          ret |-> IF inverse THEN inv._invModelMatrix ELSE inv._modelMatrix,
          fwdComputed |-> IF self._matrixNeedsUpdate THEN 1 ELSE 0,
          invComputed |-> IF inverse /\ fwd._invMatrixNeedsUpdate
                          THEN 1 ELSE 0 ]

\* the modelMatrix property
modelMatrix(self) ==
    IF ~self._matrixNeedsUpdate
    THEN [pose |-> self, ret |-> self._modelMatrix,
          fwdComputed |-> 0, invComputed |-> 0]
    ELSE getModelMatrix(self, FALSE)

\* the inverseModelMatrix property
inverseModelMatrix(self) ==
    LET t == TruthValue(NonZero(self._invModelMatrix))
        g == getModelMatrix(self, TRUE)
    IN  IF t.raised # None
        THEN [pose |-> self, ret |-> None, raised |-> t.raised,
              fwdComputed |-> 0, invComputed |-> 0]
        ELSE IF ~t.value
        THEN [pose |-> self, ret |-> self._invModelMatrix, raised |-> None,
              fwdComputed |-> 0, invComputed |-> 0]
        ELSE [pose |-> g.pose, ret |-> g.ret, raised |-> None,
              fwdComputed |-> g.fwdComputed, invComputed |-> g.invComputed]

----------------------------------------------------------------------------
(* Operations on the pose under test. *)

\* orientations assigned to the pose under test
OriInputs == {IdentityOri, <<2, 0, 0, 0>>, <<1, 1, 1, 1>>}

ForwardReads == {"getModelMatrix", "modelMatrix"}

SetPos ==
    \E value \in PosInputs :
        /\ thePose' = setPos(thePose, value)
        /\ lastOp' = "pos" /\ prevOp' = lastOp /\ poseRaised' = None
        /\ lastFwd' = None
        /\ nFwdReads' = 0 /\ nFwd' = 0 /\ nInv' = 0
        /\ UNCHANGED <<returned, algVars, drawVars,
                       auxVars>>

SetOri ==
    \E value \in OriInputs :
        /\ thePose' = setOri(thePose, value)
        /\ lastOp' = "ori" /\ prevOp' = lastOp /\ poseRaised' = None
        /\ lastFwd' = None
        /\ nFwdReads' = 0 /\ nFwd' = 0 /\ nInv' = 0
        /\ UNCHANGED <<returned, algVars, drawVars,
                       auxVars>>

SetOriAxisAngle ==
    \E aa \in AxisAngles :
        /\ thePose' = setOriAxisAngle(thePose, aa[1], aa[2])
        /\ lastOp' = "setOriAxisAngle" /\ prevOp' = lastOp /\ poseRaised' = None
        /\ lastFwd' = None
        /\ nFwdReads' = 0 /\ nFwd' = 0 /\ nInv' = 0
        /\ UNCHANGED <<returned, algVars, drawVars,
                       auxVars>>

InvertInPlace ==
    /\ thePose' = invert(thePose)
    /\ lastOp' = "invert" /\ prevOp' = lastOp /\ poseRaised' = None
    /\ UNCHANGED <<returned, lastFwd, nFwdReads, nFwd, nInv, algVars, drawVars,
                       auxVars>>

\* a matrix read whose outcome is r
Read(r, op) ==
    /\ nFwd + r.fwdComputed <= MaxRecompute
    /\ nInv + r.invComputed <= MaxRecompute
    /\ thePose' = r.pose
    /\ returned' = r.ret
    /\ lastOp' = op /\ prevOp' = lastOp /\ poseRaised' = None
    /\ nFwd' = nFwd + r.fwdComputed
    /\ nInv' = nInv + r.invComputed

GetModelMatrix ==
    /\ nFwdReads < MaxReads
    /\ Read(getModelMatrix(thePose, FALSE), "getModelMatrix")
    /\ lastFwd' = returned'
    /\ nFwdReads' = nFwdReads + 1
    /\ UNCHANGED <<algVars, drawVars,
                       auxVars>>

GetInverseModelMatrix ==
    /\ Read(getModelMatrix(thePose, TRUE), "getModelMatrixInverse")
    /\ UNCHANGED <<lastFwd, nFwdReads, algVars, drawVars,
                       auxVars>>

ModelMatrix ==
    /\ nFwdReads < MaxReads
    /\ Read(modelMatrix(thePose), "modelMatrix")
    /\ lastFwd' = returned'
    /\ nFwdReads' = nFwdReads + 1
    /\ UNCHANGED <<algVars, drawVars,
                       auxVars>>

\* a read of the inverseModelMatrix property
InverseModelMatrix ==
    \E r \in {inverseModelMatrix(thePose)} :
        /\ nFwd + r.fwdComputed <= MaxRecompute
        /\ nInv + r.invComputed <= MaxRecompute
        /\ thePose' = r.pose
        /\ returned' = r.ret
        /\ poseRaised' = r.raised
        /\ lastOp' = "inverseModelMatrix"
        /\ prevOp' = lastOp
        /\ nFwd' = nFwd + r.fwdComputed
        /\ nInv' = nInv + r.invComputed
        /\ UNCHANGED <<lastFwd, nFwdReads, algVars, drawVars, auxVars>>

\* assignments to the pose and reads of its inverse matrix, by the method and
\* by the property
InversePropertyNext ==
    \/ SetPos
    \/ SetOri
    \/ GetInverseModelMatrix
    \/ InverseModelMatrix

PoseNext ==
    \/ SetPos
    \/ SetOri
    \/ SetOriAxisAngle
    \/ InvertInPlace
    \/ GetModelMatrix
    \/ GetInverseModelMatrix
    \/ ModelMatrix

----------------------------------------------------------------------------
(* The pose algebra: the operators * and ~ applied to a pose P =           *)
(* RigidBodyPose(p, q).                                                    *)

\* second operands: constructed poses, and poses whose position was assigned
\* after construction, so that their cached matrices are out of date
OtherPoses ==
    {RigidBodyPose(p, q) : p \in {<<0, 0, 0>>, <<1, 0, -1>>}, q \in OriInputs}
    \cup {setPos(RigidBodyPose(<<0, 0, 0>>, q), <<1, 0, -1>>) : q \in OriInputs}

\* operand * otherPose
Compose ==
    /\ product' = Mul(operand, otherPose)
    /\ algOp' = "a * b"
    /\ algRaised' = None
    /\ UNCHANGED <<operand, otherPose, poseVars, drawVars, auxVars>>

\* operand.isEqual(otherPose)
IsEqual ==
    \E r \in {isEqual(operand, otherPose)} :
        /\ product' = r.ret
        /\ algOp' = "isEqual"
        /\ algRaised' = r.raised
        /\ UNCHANGED <<operand, otherPose, poseVars, drawVars, auxVars>>

\* ~P * P
InverseTimesPose ==
    /\ product' = Mul(Invert(operand), operand)
    /\ algOp' = "~P * P"
    /\ algRaised' = None
    /\ UNCHANGED <<operand, otherPose, poseVars, drawVars,
                       auxVars>>

\* P * ~P
PoseTimesInverse ==
    /\ product' = Mul(operand, Invert(operand))
    /\ algOp' = "P * ~P"
    /\ algRaised' = None
    /\ UNCHANGED <<operand, otherPose, poseVars, drawVars,
                       auxVars>>

AlgNext ==
    \/ Compose
    \/ IsEqual
    \/ InverseTimesPose
    \/ PoseTimesInverse

----------------------------------------------------------------------------
(* The module's shader table. *)

MAX_LIGHTS == 8

\* shader flags of a loop over range(1, MAX_LIGHTS)
shaderFlags_OneShort ==
    [k \in 1..(2 * (MAX_LIGHTS - 1)) |-> <<((k - 1) \div 2) + 1, k % 2 = 1>>]

\* shaderFlags: for i in range(1, MAX_LIGHTS + 1), for j in (True, False),
\* the key (i, j), in this order
shaderFlags ==
    [k \in 1..(2 * MAX_LIGHTS) |-> <<((k - 1) \div 2) + 1, k % 2 = 1>>]

\* _material_shaders_ after the module's loop over shaderFlags: each flag is
\* the key of the program built for it.  A program object is named by its
\* place in the order of creation.
CompiledShaders ==
    [flag \in {shaderFlags[k] : k \in DOMAIN shaderFlags} |->
        CHOOSE k \in DOMAIN shaderFlags :
            /\ shaderFlags[k] = flag
            /\ \A j \in DOMAIN shaderFlags : shaderFlags[j] = flag => j <= k]

----------------------------------------------------------------------------
(* class PhongMaterial, as far as draw() reads it. *)

Textures == {None, "tex"}

\* PhongMaterial.__init__(win, diffuseTexture=..., useShaders=...)
PhongMaterial(diffuseTexture, useShaders) ==
    [ _diffuseTexture |-> diffuseTexture,
      _useTextures |-> FALSE,
      _useShaders |-> useShaders ]

\* the diffuseTexture setter
setDiffuseTexture(self, value) == [self EXCEPT !._diffuseTexture = value]

----------------------------------------------------------------------------
(* The stimulus classes.  A stimulus is the record of its fields; cls is its
   class.  The value of material is kept as a sequence, and materialType is
   its Python type: "None" (the empty sequence), "PhongMaterial" (the
   sequence of that one material) or "dict" (name -> PhongMaterial: the
   sequence of its items, in insertion order).  A useMaterial argument is
   NoMaterial for None, and else the sequence of the one material given. *)

NoMaterial == <<>>

\* BaseRigidBodyStim.__init__
BaseRigidBodyStim(color, opacity, useShaders) ==
    [ cls |-> "BaseRigidBodyStim",
      color |-> color,
      opacity |-> opacity,
      _useShaders |-> useShaders,
      materialType |-> "None",
      material |-> NoMaterial,
      _vao |-> None ]

\* super(ObjMeshStim, self).__init__(win, pos=pos, ori=ori): self before
\* anything is loaded
BaseConstructed == BaseRigidBodyStim(0, 1, FALSE)

\* PhongMaterial(self.win), as far as draw() reads it
UntexturedMaterial == PhongMaterial(None, FALSE)

TypeOf(useMaterial) ==
    IF useMaterial = NoMaterial THEN "None" ELSE "PhongMaterial"

\* SphereStim.__init__
SphereStim(color, opacity, useMaterial, useShaders) ==
    [BaseRigidBodyStim(color, opacity, useShaders) EXCEPT
        !.cls = "SphereStim",
        !._vao = "vao",
        !.materialType = TypeOf(useMaterial),
        !.material = useMaterial,
        !._useShaders = useShaders]

\* BoxStim.__init__
BoxStim(color, opacity, useMaterial, useShaders) ==
    [BaseRigidBodyStim(color, opacity, useShaders) EXCEPT
        !.cls = "BoxStim",
        !._vao = "vao",
        !.materialType = TypeOf(useMaterial),
        !.material = useMaterial]

\* PlaneStim.__init__
PlaneStim(color, opacity, useMaterial, useShaders) ==
    [BaseRigidBodyStim(color, opacity, useShaders) EXCEPT
        !.cls = "PlaneStim",
        !._vao = "vao",
        !.materialType = TypeOf(useMaterial),
        !.material = useMaterial]

\* ObjMeshStim.__init__: objModel is what gt.loadObjFile returned (mtlFile,
\* and faces: the names of the face groups), mtlLib what _loadMtlLib returns
\* for objModel.mtlFile
ObjMeshStim(objModel, mtlLib, useMaterial, useShaders) ==
    [BaseConstructed EXCEPT
        !.cls = "ObjMeshStim",
        !.materialType =
            IF useMaterial = NoMaterial
            THEN IF objModel.mtlFile # None THEN "dict" ELSE "PhongMaterial"
            ELSE "PhongMaterial",
        !.material =
            IF useMaterial = NoMaterial
            THEN IF objModel.mtlFile # None
                 THEN mtlLib
                 ELSE <<UntexturedMaterial>>
            ELSE useMaterial,
        !._vao = [name \in objModel.faces |-> name],
        !._useShaders = useShaders]

\* the outcome of a draw(): the calls made, the keys looked up in the shader
\* table, the exception that ended it, win.draw3d and the pushes left on the
\* matrix stack when it ended, and the pose after its matrix was read
Outcome(calls, keys, exc, draw3d, depth, pose) ==
    [calls |-> calls, keys |-> keys, raised |-> exc, draw3d |-> draw3d,
     depth |-> depth, pose |-> pose]

KeyErrorShader == "KeyError: _material_shaders_[shaderKey]"
KeyErrorVao == "KeyError: self._vao[materialName]"
TypeErrorLen == "TypeError: len(self.material)"
AttributeErrorItems == "AttributeError: self.material.items()"

\* BaseRigidBodyStim.draw(self, win) from win.draw3d = True on
BaseRigidBodyStim_drawBound(self, pose, nLights, shaders) ==
    LET drawVAO == <<"drawVAO", self._vao>>
        \* the calls between the push and the pop, the keys looked up and
        \* the exception raised
        body ==
            IF self.materialType # "None"
            THEN IF self._useShaders
                 THEN LET shaderKey ==
                              <<nLights, self.material[1]._useTextures>>
                      IN  IF shaderKey \in DOMAIN shaders
                          THEN [calls |-> << <<"useMaterial", "material">>,
                                           <<"useProgram", shaders[shaderKey]>>,
                                           drawVAO,
                                           <<"useProgram", 0>>,
                                           <<"clearMaterial", "material">> >>,
                                keys |-> <<shaderKey>>, raised |-> None]
                          ELSE [calls |-> << <<"useMaterial", "material">> >>,
                                keys |-> <<shaderKey>>,
                                raised |-> KeyErrorShader]
                 ELSE [calls |-> << <<"useMaterial", "material">>,
                                  drawVAO,
                                  <<"clearMaterial", "material">> >>,
                       keys |-> <<>>, raised |-> None]
            ELSE IF self._useShaders
                 THEN LET shaderKey == <<nLights, FALSE, FALSE>>
                      IN  IF shaderKey \in DOMAIN shaders
                          THEN [calls |-> << <<"useProgram", shaders[shaderKey]>>,
                                           <<"glMaterialfv", "GL_DIFFUSE",
                                             self.color, self.opacity>>,
                                           <<"glMaterialfv", "GL_AMBIENT",
                                             self.color, self.opacity>>,
                                           drawVAO,
                                           <<"useProgram", 0>> >>,
                                keys |-> <<shaderKey>>, raised |-> None]
                          ELSE [calls |-> <<>>, keys |-> <<shaderKey>>,
                                raised |-> KeyErrorShader]
                 ELSE [calls |-> << <<"glEnable", "GL_COLOR_MATERIAL">>,
                                  <<"glDisable", "GL_TEXTURE_2D">>,
                                  <<"glColorMaterial">>,
                                  <<"glColor4f", self.color, self.opacity>>,
                                  drawVAO,
                                  <<"glDisable", "GL_COLOR_MATERIAL">> >>,
                       keys |-> <<>>, raised |-> None]
        \* m: the read of thePose.modelMatrix, r: the body
        draw(m, r) ==
            LET head == << <<"glPushMatrix">>,
                           <<"glLoadTransposeMatrixf", m.ret>> >>
            IN  IF r.raised = None
                THEN Outcome(head \o r.calls \o << <<"glPopMatrix">> >>,
                             r.keys, None, FALSE, 0, m.pose)
                ELSE Outcome(head \o r.calls, r.keys, r.raised, TRUE, 1,
                             m.pose)
    IN  draw(modelMatrix(pose), body)

\* draw() without its test of self._vao
BaseRigidBodyStim_draw_NoVaoCheck(self, pose, draw3d, nLights, shaders) ==
    BaseRigidBodyStim_drawBound(self, pose, nLights, shaders)

\* BaseRigidBodyStim.draw(self, win)
BaseRigidBodyStim_draw(self, pose, draw3d, nLights, shaders) ==
    IF self._vao = None
    THEN Outcome(<<>>, <<>>, None, draw3d, 0, pose)
    ELSE BaseRigidBodyStim_drawBound(self, pose, nLights, shaders)

\* the loop of ObjMeshStim.draw over self.material.items(), from item i on:
\* the calls and lookups it makes and the exception that ends it
RECURSIVE MaterialLoop(_, _, _, _, _)
MaterialLoop(self, i, nLights, shaders, acc) ==
    IF i > Len(self.material)
    THEN acc
    ELSE
    LET materialName == self.material[i].name
        materialDesc == self.material[i].mtl
        shaderKey == <<nLights, materialDesc._useTextures>>
        used == acc.calls \o << <<"useMaterial", materialName>> >>
        keys == IF self._useShaders
                THEN acc.keys \o <<shaderKey>> ELSE acc.keys
    IN  IF self._useShaders /\ shaderKey \notin DOMAIN shaders
        THEN [calls |-> used, keys |-> keys, raised |-> KeyErrorShader]
        ELSE
        LET prog == IF self._useShaders
                    THEN << <<"useProgram", shaders[shaderKey]>> >>
                    ELSE <<>>
        IN  IF materialName \notin DOMAIN self._vao
            THEN [calls |-> used \o prog, keys |-> keys,
                  raised |-> KeyErrorVao]
            ELSE
            LET clear ==
                    IF i = Len(self.material)
                    THEN (IF self._useShaders
                          THEN << <<"useProgram", 0>> >> ELSE <<>>)
                         \o << <<"clearMaterial", materialName>> >>
                    ELSE <<>>
            IN  MaterialLoop(self, i + 1, nLights, shaders,
                    [calls |-> used \o prog
                                \o << <<"drawVAO", self._vao[materialName]>> >>
                                \o clear,
                     keys |-> keys,
                     raised |-> None])

\* ObjMeshStim.draw(self, win)
ObjMeshStim_draw(self, pose, nLights, shaders) ==
    LET \* the calls between the push and the pop, the keys looked up and
        \* the exception raised
        body ==
            IF self.materialType = "None"
            THEN [calls |-> <<>>, keys |-> <<>>,
                  raised |-> AttributeErrorItems]
            ELSE IF self.materialType # "dict"
            THEN [calls |-> <<>>, keys |-> <<>>, raised |-> TypeErrorLen]
            ELSE MaterialLoop(self, 1, nLights, shaders,
                     [calls |-> <<>>, keys |-> <<>>, raised |-> None])
        \* m: the read of thePose.modelMatrix, r: the body
        draw(m, r) ==
            LET head == << <<"glPushMatrix">>,
                           <<"glLoadTransposeMatrixf", m.ret>> >>
            IN  IF r.raised = None
                THEN Outcome(head \o r.calls \o << <<"glPopMatrix">> >>,
                             r.keys, None, TRUE, 0, m.pose)
                ELSE Outcome(head \o r.calls, r.keys, r.raised, TRUE, 1,
                             m.pose)
    IN  draw(modelMatrix(pose), body)

----------------------------------------------------------------------------
(* Operations on the stimulus and its window. *)

\* deepest matrix stack explored (a draw that raises leaves its push behind)
MaxStackDepth == 1
\* most lights attached to the window beyond MAX_LIGHTS
MaxExtraLights == 1
\* the numbers of lights attached to the window
LightCounts ==
    {0, 1, 2, MAX_LIGHTS} \cup (MAX_LIGHTS + 1)..(MAX_LIGHTS + MaxExtraLights)

\* positions assigned to the stimulus
StimPosInputs == {<<0, 0, 0>>, <<1, 0, 0>>}

Colors == {0, 1}
Opacities == {1}
MaterialNames == {"A", "B"}

Materials == {PhongMaterial(t, FALSE) : t \in Textures}

\* what gt.loadObjFile can return: a material library or none, and the names
\* of the face groups
ObjModels ==
    {[mtlFile |-> f, faces |-> g] :
        f \in {None, "model.mtl"}, g \in SUBSET MaterialNames}

\* the dictionaries _loadMtlLib can return: materials under distinct names,
\* in the order of their declaration
MtlLibs ==
    UNION {
        {lib \in [1..n -> [name : MaterialNames, mtl : Materials]] :
            \A i, j \in 1..n : i # j => lib[i].name # lib[j].name}
        : n \in 0..Cardinality(MaterialNames)}

\* the values of a useMaterial argument and of an assignment to material
UseMaterials == {NoMaterial} \cup {<<m>> : m \in Materials}

\* the stimuli a program can construct
NewStims ==
    {BaseRigidBodyStim(c, o, u) :
        c \in Colors, o \in Opacities, u \in BOOLEAN}
    \cup UNION {
        {SphereStim(c, o, m, u), BoxStim(c, o, m, u), PlaneStim(c, o, m, u)} :
            c \in Colors, o \in Opacities,
            m \in UseMaterials, u \in BOOLEAN}
    \cup {ObjMeshStim(om, lib, m, u) :
            om \in ObjModels, lib \in MtlLibs,
            m \in UseMaterials, u \in BOOLEAN}

\* win.lights = [...]: n lights
SetLights ==
    \E n \in LightCounts :
        /\ n # winLights
        /\ winLights' = n
        /\ stimOp' = "lights"
        /\ glCalls' = <<>> /\ shaderKeys' = <<>> /\ raised' = None
        /\ UNCHANGED <<_material_shaders_, winDraw3d, glStackDepth, stim,
                       poseVars, algVars,
                       auxVars>>

\* stim.material = value
SetMaterial ==
    \E value \in UseMaterials :
        /\ stim' = [stim EXCEPT !.materialType = TypeOf(value),
                                !.material = value]
        /\ stimOp' = "material"
        /\ glCalls' = <<>> /\ shaderKeys' = <<>> /\ raised' = None
        /\ UNCHANGED <<_material_shaders_, winLights, winDraw3d, glStackDepth,
                       poseVars, algVars,
                       auxVars>>

\* stim.material.diffuseTexture = value
SetDiffuseTexture ==
    \E value \in Textures :
        /\ stim.materialType = "PhongMaterial"
        /\ stim' = [stim EXCEPT
                        !.material[1] =
                            setDiffuseTexture(stim.material[1], value)]
        /\ stimOp' = "diffuseTexture"
        /\ glCalls' = <<>> /\ shaderKeys' = <<>> /\ raised' = None
        /\ UNCHANGED <<_material_shaders_, winLights, winDraw3d, glStackDepth,
                       poseVars, algVars,
                       auxVars>>

\* stim.material[name].diffuseTexture = value
SetGroupDiffuseTexture ==
    \E value \in Textures :
        /\ stim.materialType = "dict"
        /\ \E i \in DOMAIN stim.material :
            stim' = [stim EXCEPT !.material[i].mtl =
                        setDiffuseTexture(stim.material[i].mtl, value)]
        /\ stimOp' = "diffuseTexture"
        /\ glCalls' = <<>> /\ shaderKeys' = <<>> /\ raised' = None
        /\ UNCHANGED <<_material_shaders_, winLights, winDraw3d, glStackDepth,
                       poseVars, algVars,
                       auxVars>>

\* stim.pos = value
StimSetPos ==
    \E value \in StimPosInputs :
        /\ thePose' = setPos(thePose, value)
        /\ stimOp' = "pos"
        /\ glCalls' = <<>> /\ shaderKeys' = <<>> /\ raised' = None
        /\ UNCHANGED <<lastOp, prevOp, returned, lastFwd, nFwdReads, nFwd,
                       nInv, poseRaised, _material_shaders_, winLights, winDraw3d,
                       glStackDepth, stim, algVars,
                       auxVars>>

\* stim.draw()
Draw ==
    \E r \in {IF stim.cls = "ObjMeshStim"
              THEN ObjMeshStim_draw(stim, thePose, winLights,
                                    _material_shaders_)
              ELSE BaseRigidBodyStim_draw(stim, thePose, winDraw3d, winLights,
                                          _material_shaders_)} :
        /\ glStackDepth + r.depth <= MaxStackDepth
        /\ glCalls' = r.calls
        /\ shaderKeys' = r.keys
        /\ raised' = r.raised
        /\ winDraw3d' = r.draw3d
        /\ glStackDepth' = glStackDepth + r.depth
        /\ thePose' = r.pose
        /\ stimOp' = "draw"
        /\ UNCHANGED <<lastOp, prevOp, returned, lastFwd, nFwdReads, nFwd,
                       nInv, poseRaised, _material_shaders_, winLights, stim, algVars,
                       auxVars>>

DrawNext ==
    \/ SetLights
    \/ SetMaterial
    \/ SetDiffuseTexture
    \/ SetGroupDiffuseTexture
    \/ StimSetPos
    \/ Draw

----------------------------------------------------------------------------
(* class PhongMaterial: its colours.  A source colour is a vector of three
   components stored in HALVES (<<2, 0, -2>> is (1, 0, -1)); a device-space
   colour is a vector of four stored in QUARTERS, so that (v * c + 1) / 2 of
   the source component v = s/2 is the integer s * c + 2 and the alpha 1.0
   is 4.  Contrast and opacity are integers. *)

\* (value * contrast + 1) / 2.0 followed by the alpha
DeviceRGB(value, contrast, alpha) ==
    <<value[1] * contrast + 2, value[2] * contrast + 2,
      value[3] * contrast + 2, 4 * alpha>>

\* PhongMaterial.__init__, the defaults of the colours and of shininess
DefaultDiffuse == <<1, 1, 1>>
DefaultSpecular == <<-2, -2, -2>>
DefaultAmbient == <<-2, -2, -2>>
DefaultEmission == <<-2, -2, -2>>
DefaultShininess == 2 * 10

\* the diffuseRGB setter
PhongMaterial_setDiffuseRGB(self, value) ==
    [self EXCEPT !._diffuseRGB = DeviceRGB(value, self.contrast, self.opacity)]

\* the specularRGB setter
PhongMaterial_setSpecularRGB(self, value) ==
    [self EXCEPT !._specularRGB = DeviceRGB(value, self.contrast, self.opacity)]

\* the ambientRGB setter
PhongMaterial_setAmbientRGB(self, value) ==
    [self EXCEPT !._ambientRGB = DeviceRGB(value, self.contrast, self.opacity)]

\* the emissionRGB setter
PhongMaterial_setEmissionRGB(self, value) ==
    [self EXCEPT !._emissionRGB = DeviceRGB(value, self.contrast, self.opacity)]

\* the diffuseColor setter; psychopy.visual.helpers.setColor, with colorSpace
\* 'rgb' and no operation, assigns the colour to the attribute rgbAttrib
PhongMaterial_setDiffuseColor(self, value) ==
    PhongMaterial_setDiffuseRGB([self EXCEPT !._diffuseColor = value], value)

\* the specularColor setter
PhongMaterial_setSpecularColor(self, value) ==
    PhongMaterial_setSpecularRGB([self EXCEPT !._specularColor = value], value)

\* the ambientColor setter
PhongMaterial_setAmbientColor(self, value) ==
    PhongMaterial_setAmbientRGB([self EXCEPT !._ambientColor = value], value)

\* the emissionColor setter
PhongMaterial_setEmissionColor(self, value) ==
    PhongMaterial_setEmissionRGB([self EXCEPT !._emissionColor = value], value)

\* the shininess setter: float(value)
PhongMaterial_setShininess(self, value) == [self EXCEPT !._shininess = value]

\* material.opacity = value: a plain attribute
PhongMaterial_setOpacity(self, value) == [self EXCEPT !.opacity = value]

\* material.contrast = value: a plain attribute
PhongMaterial_setContrast(self, value) == [self EXCEPT !.contrast = value]

\* PhongMaterial.__init__(win, diffuseColor, specularColor, ambientColor,
\* emissionColor, shininess, opacity=opacity, contrast=contrast)
PhongMaterialColors(diffuseColor, specularColor, ambientColor, emissionColor, shininess, opacity, contrast) ==
    PhongMaterial_setEmissionColor(
      PhongMaterial_setAmbientColor(
        PhongMaterial_setSpecularColor(
          PhongMaterial_setDiffuseColor(
            [ _diffuseColor |-> <<0, 0, 0>>,
              _specularColor |-> <<0, 0, 0>>,
              _ambientColor |-> <<0, 0, 0>>,
              _emissionColor |-> <<0, 0, 0>>,
              _shininess |-> shininess,
              _diffuseRGB |-> <<0, 0, 0, 4>>,
              _specularRGB |-> <<0, 0, 0, 4>>,
              _ambientRGB |-> <<0, 0, 0, 4>>,
              _emissionRGB |-> <<0, 0, 0, 4>>,
              opacity |-> opacity,
              contrast |-> contrast,
              _diffuseTexture |-> None ],
            diffuseColor),
          specularColor),
        ambientColor),
      emissionColor)

\* PhongMaterial(win)
DefaultMaterial ==
    PhongMaterialColors(DefaultDiffuse, DefaultSpecular, DefaultAmbient,
                        DefaultEmission, DefaultShininess, 1, 1)

\* colours, opacities and contrasts assigned to the material under test
ColorInputs == {<<2, 0, -2>>, <<-2, -2, -2>>}
OpacityInputs == {0, 1}
ContrastInputs == {0, 1}

SetDiffuseColor ==
    \E value \in ColorInputs :
        /\ theMaterial' = PhongMaterial_setDiffuseColor(theMaterial, value)
        /\ matOp' = "diffuseColor"
        /\ UNCHANGED <<poseVars, algVars, drawVars, lightVars, loadVars>>

SetSpecularColor ==
    \E value \in ColorInputs :
        /\ theMaterial' = PhongMaterial_setSpecularColor(theMaterial, value)
        /\ matOp' = "specularColor"
        /\ UNCHANGED <<poseVars, algVars, drawVars, lightVars, loadVars>>

SetAmbientColor ==
    \E value \in ColorInputs :
        /\ theMaterial' = PhongMaterial_setAmbientColor(theMaterial, value)
        /\ matOp' = "ambientColor"
        /\ UNCHANGED <<poseVars, algVars, drawVars, lightVars, loadVars>>

SetEmissionColor ==
    \E value \in ColorInputs :
        /\ theMaterial' = PhongMaterial_setEmissionColor(theMaterial, value)
        /\ matOp' = "emissionColor"
        /\ UNCHANGED <<poseVars, algVars, drawVars, lightVars, loadVars>>

SetOpacity ==
    \E value \in OpacityInputs :
        /\ theMaterial' = PhongMaterial_setOpacity(theMaterial, value)
        /\ matOp' = "opacity"
        /\ UNCHANGED <<poseVars, algVars, drawVars, lightVars, loadVars>>

SetContrast ==
    \E value \in ContrastInputs :
        /\ theMaterial' = PhongMaterial_setContrast(theMaterial, value)
        /\ matOp' = "contrast"
        /\ UNCHANGED <<poseVars, algVars, drawVars, lightVars, loadVars>>

MaterialNext ==
    \/ SetDiffuseColor
    \/ SetSpecularColor
    \/ SetAmbientColor
    \/ SetEmissionColor
    \/ SetOpacity
    \/ SetContrast

----------------------------------------------------------------------------
(* class LightSource.  _pos is the vector (x, y, z, w) of integers; colours
   are stored as those of PhongMaterial: source colours in halves, device-
   space colours in quarters. *)

ValueErrorLightType == "ValueError: Unknown lightType specified"

\* the pos setter with w = 1 whatever the light type
LightSource_setPos_AlwaysPoint(self, value) ==
    [self EXCEPT !._pos = <<value[1], value[2], value[3], 1>>]

\* the pos setter
LightSource_setPos(self, value) ==
    [self EXCEPT !._pos =
        <<value[1], value[2], value[3],
          IF self._lightType = "point" THEN 1 ELSE 0>>]

\* a value read from the light, with its Python type; NotRead: no value
NotRead == [type |-> "NoneType", value |-> None]

\* the lightType getter
LightSource_lightType(self) ==
    [type |-> "ndarray", value |-> <<self._pos[1], self._pos[2], self._pos[3]>>]

\* the lightType setter: the light after it, and the exception it raised
LightSource_setLightType(self, value) ==
    LET typed == [self EXCEPT !._lightType = value]
    IN  IF value = "point"
        THEN [self |-> [typed EXCEPT !._pos[4] = 1], raised |-> None]
        ELSE IF value = "directional"
        THEN [self |-> [typed EXCEPT !._pos[4] = 0], raised |-> None]
        ELSE [self |-> typed, raised |-> ValueErrorLightType]

\* the diffuseRGB setter: (value + 1) / 2.0
LightSource_setDiffuseRGB(self, value) ==
    [self EXCEPT !._diffuseRGB =
        <<value[1] + 2, value[2] + 2, value[3] + 2, 4>>]

\* the specularRGB setter: (value + 1) / 2.0
LightSource_setSpecularRGB(self, value) ==
    [self EXCEPT !._specularRGB =
        <<value[1] + 2, value[2] + 2, value[3] + 2, 4>>]

\* the ambientRGB setter: (value * + 1) / 2.0, the product of value and +1
\* halved
LightSource_setAmbientRGB(self, value) ==
    [self EXCEPT !._ambientRGB = <<value[1], value[2], value[3], 4>>]

\* the diffuseColor setter (setColor assigns the colour to diffuseRGB)
LightSource_setDiffuseColor(self, value) ==
    LightSource_setDiffuseRGB([self EXCEPT !._diffuseColor = value], value)

\* the specularColor setter
LightSource_setSpecularColor(self, value) ==
    LightSource_setSpecularRGB([self EXCEPT !._specularColor = value], value)

\* the ambientColor setter
LightSource_setAmbientColor(self, value) ==
    LightSource_setAmbientRGB([self EXCEPT !._ambientColor = value], value)

\* LightSource.__init__(win, pos=pos, lightType=lightType) with the default
\* colours
LightSource(pos, lightType) ==
    LightSource_setPos(
      [ LightSource_setAmbientColor(
          LightSource_setSpecularColor(
            LightSource_setDiffuseColor(
              [ _pos |-> <<0, 0, 0, 0>>,
                _lightType |-> None,
                _diffuseColor |-> <<0, 0, 0>>,
                _specularColor |-> <<0, 0, 0>>,
                _ambientColor |-> <<0, 0, 0>>,
                _diffuseRGB |-> <<0, 0, 0, 4>>,
                _specularRGB |-> <<0, 0, 0, 4>>,
                _ambientRGB |-> <<0, 0, 0, 4>> ],
              <<2, 2, 2>>),
            <<2, 2, 2>>),
          <<0, 0, 0>>)
        EXCEPT !._lightType = lightType ],
      pos)

\* positions and light types given to the light under test
LightPosInputs == {<<0, 0, 0>>, <<0, 1, 0>>}
LightTypes == {"point", "directional", "spot"}

LightSetPos ==
    \E value \in LightPosInputs :
        /\ theLight' = LightSource_setPos(theLight, value)
        /\ lightOp' = "pos"
        /\ lightRaised' = None
        /\ lightReturned' = NotRead
        /\ UNCHANGED <<poseVars, algVars, drawVars, matVars, loadVars>>

LightSetLightType ==
    \E value \in LightTypes :
        LET r == LightSource_setLightType(theLight, value)
        IN  /\ theLight' = r.self
            /\ lightOp' = "lightType"
            /\ lightRaised' = r.raised
            /\ lightReturned' = NotRead
            /\ UNCHANGED <<poseVars, algVars, drawVars, matVars, loadVars>>

LightSetDiffuseColor ==
    \E value \in ColorInputs :
        /\ theLight' = LightSource_setDiffuseColor(theLight, value)
        /\ lightOp' = "diffuseColor"
        /\ lightRaised' = None
        /\ lightReturned' = NotRead
        /\ UNCHANGED <<poseVars, algVars, drawVars, matVars, loadVars>>

LightSetSpecularColor ==
    \E value \in ColorInputs :
        /\ theLight' = LightSource_setSpecularColor(theLight, value)
        /\ lightOp' = "specularColor"
        /\ lightRaised' = None
        /\ lightReturned' = NotRead
        /\ UNCHANGED <<poseVars, algVars, drawVars, matVars, loadVars>>

LightSetAmbientColor ==
    \E value \in ColorInputs :
        /\ theLight' = LightSource_setAmbientColor(theLight, value)
        /\ lightOp' = "ambientColor"
        /\ lightRaised' = None
        /\ lightReturned' = NotRead
        /\ UNCHANGED <<poseVars, algVars, drawVars, matVars, loadVars>>

LightGetLightType ==
    /\ lightReturned' = LightSource_lightType(theLight)
    /\ lightOp' = "get lightType"
    /\ lightRaised' = None
    /\ UNCHANGED <<theLight, poseVars, algVars, drawVars, matVars, loadVars>>

LightNext ==
    \/ LightGetLightType
    \/ LightSetPos
    \/ LightSetLightType
    \/ LightSetDiffuseColor
    \/ LightSetSpecularColor
    \/ LightSetAmbientColor

----------------------------------------------------------------------------
(* ObjMeshStim._loadMtlLib and ObjMeshStim.__init__.  A material library is
   the sequence of its stripped lines; a line is the pair of its directive
   (the text before the first space) and the rest of the line.  The rest of
   an Ns line is a text, that of a Kd, Ks or Ka line the sequence of the
   texts between its spaces; a text is the sequence of its characters.  The
   numbers read from a library are stored in HALVES, shininess included. *)

\* most lines of a material library
MaxLines == 4

Digits == <<"0", "1", "2", "3", "4", "5", "6", "7", "8", "9">>

\* the value of the digit c
DigitValue(c) == (CHOOSE d \in DOMAIN Digits : Digits[d] = c) - 1

IsDigit(c) == \E d \in DOMAIN Digits : Digits[d] = c

\* the value of a text of digits
RECURSIVE IntValue(_)
IntValue(text) ==
    IF text = <<>>
    THEN 0
    ELSE 10 * IntValue(SubSeq(text, 1, Len(text) - 1))
         + DigitValue(text[Len(text)])

\* where the decimal point of text is (Len(text) + 1: nowhere)
PointAt(text) ==
    IF \E i \in DOMAIN text : text[i] = "."
    THEN CHOOSE i \in DOMAIN text : text[i] = "."
    ELSE Len(text) + 1

\* float(text) accepts the text: digits, with at most one decimal point
\* (the fractions of the libraries modelled are .0 and .5)
IsFloat(text) ==
    LET p == PointAt(text)
        whole == SubSeq(text, 1, p - 1)
        frac == SubSeq(text, p + 1, Len(text))
    IN  /\ \A i \in DOMAIN whole : IsDigit(whole[i])
        /\ frac \in {<<>>, <<"0">>, <<"5">>}
        /\ Len(whole) + Len(frac) > 0

\* float(text), in halves
Float(text) ==
    LET p == PointAt(text)
        whole == SubSeq(text, 1, p - 1)
        frac == SubSeq(text, p + 1, Len(text))
    IN  2 * IntValue(whole) + (IF frac = <<"5">> THEN 1 ELSE 0)

\* 2.0 * color - 1 of the colour v in halves: v - 1, in halves
Rescale_Unscaled(v) == v

Rescale(v) == 2 * v - 2

ValueErrorFloat == "ValueError: could not convert string to float"
KeyErrorMaterial == "KeyError: foundMaterials[thisMaterial]"
IOErrorTexture == "FileNotFoundError: Image.open"
IOErrorMtl == "FileNotFoundError: open(mtlFile)"
IOErrorObj == "IOError: gt.loadObjFile"

\* thisMaterial = 0
NoMaterialYet == "0"

\* the image files next to the library
ImageFiles == {"tex.png"}

\* the handles gt.createTexImage2D returns, in the order of its calls
TextureHandles == <<"tex", "tex_2", "tex_3", "tex_4", "tex_5">>

\* textureName not in foundTextures.keys(), were nothing ever cached
NotCached_Always(foundTextures, textureName) == TRUE

\* textureName not in foundTextures.keys()
NotCached(foundTextures, textureName) ==
    \A i \in DOMAIN foundTextures : foundTextures[i].name # textureName

\* foundTextures[textureName]
TextureOf(foundTextures, textureName) ==
    foundTextures[CHOOSE i \in DOMAIN foundTextures :
                    foundTextures[i].name = textureName].handle

\* foundTextures[textureName] = handle
PutTexture(foundTextures, textureName, handle) ==
    IF \E i \in DOMAIN foundTextures : foundTextures[i].name = textureName
    THEN [i \in DOMAIN foundTextures |->
            IF foundTextures[i].name = textureName
            THEN [name |-> textureName, handle |-> handle]
            ELSE foundTextures[i]]
    ELSE Append(foundTextures, [name |-> textureName, handle |-> handle])

\* index of the item of the dictionary found under name (0: none)
IndexOf(found, name) ==
    IF \E i \in DOMAIN found : found[i].name = name
    THEN CHOOSE i \in DOMAIN found : found[i].name = name
    ELSE 0

\* foundMaterials[name] = mtl
SetItem(found, name, mtl) ==
    IF IndexOf(found, name) = 0
    THEN Append(found, [name |-> name, mtl |-> mtl])
    ELSE [found EXCEPT ![IndexOf(found, name)].mtl = mtl]

\* the colour of a Kd, Ks or Ka line: list(map(float, rest.split(' ')))
ColorOf(texts) == <<Rescale(Float(texts[1])), Rescale(Float(texts[2])),
                    Rescale(Float(texts[3]))>>

\* one turn of the loop of _loadMtlLib over the line
LoadLine(st, line) ==
    LET directive == line[1]
        rest == line[2]
        k == IndexOf(st.found, st.thisMaterial)
        Raise(exc) == [st EXCEPT !.raised = exc]
        Assign(mtl) == [st EXCEPT !.found[k].mtl = mtl]
    IN  IF directive = "newmtl"
        THEN [st EXCEPT !.thisMaterial = rest,
                        !.found = SetItem(st.found, rest, DefaultMaterial)]
        ELSE IF directive = "Ns"
        THEN IF k = 0
             THEN Raise(KeyErrorMaterial)
             ELSE IF IsFloat(rest)
             THEN Assign(PhongMaterial_setShininess(st.found[k].mtl,
                                                    Float(rest)))
             ELSE Raise(ValueErrorFloat)
        ELSE IF directive \in {"Ks", "Kd", "Ka"}
        THEN IF \E i \in DOMAIN rest : ~IsFloat(rest[i])
             THEN Raise(ValueErrorFloat)
             ELSE IF k = 0
             THEN Raise(KeyErrorMaterial)
             ELSE IF directive = "Ks"
             THEN Assign(PhongMaterial_setSpecularColor(st.found[k].mtl,
                                                        ColorOf(rest)))
             ELSE IF directive = "Kd"
             THEN Assign(PhongMaterial_setDiffuseColor(st.found[k].mtl,
                                                       ColorOf(rest)))
             ELSE Assign(PhongMaterial_setAmbientColor(st.found[k].mtl,
                                                       ColorOf(rest)))
        ELSE IF directive = "map_Kd"
        THEN IF NotCached(st.foundTextures, rest) /\ rest \notin ImageFiles
             THEN Raise(IOErrorTexture)
             ELSE
             LET textures ==
                     IF NotCached(st.foundTextures, rest)
                     THEN PutTexture(st.foundTextures, rest,
                                     TextureHandles[Len(st.uploads) + 1])
                     ELSE st.foundTextures
                 uploads ==
                     IF NotCached(st.foundTextures, rest)
                     THEN Append(st.uploads, rest) ELSE st.uploads
             IN  IF k = 0
                 THEN [st EXCEPT !.foundTextures = textures,
                                 !.uploads = uploads,
                                 !.raised = KeyErrorMaterial]
                 ELSE [st EXCEPT !.foundTextures = textures,
                                 !.uploads = uploads,
                                 !.found[k].mtl._diffuseTexture =
                                     TextureOf(textures, rest)]
        ELSE st

\* the loop of _loadMtlLib from line i on
RECURSIVE LoadLines(_, _, _)
LoadLines(lines, i, st) ==
    IF i > Len(lines) \/ st.raised # None
    THEN st
    ELSE LoadLines(lines, i + 1, LoadLine(st, lines[i]))

\* ObjMeshStim._loadMtlLib(mtlFile): the dictionary it returns (the sequence
\* of its items), or the exception it raises; uploads are the images it
\* decoded and uploaded, in order
_loadMtlLib(file) ==
    IF ~file.exists
    THEN [found |-> <<>>, foundTextures |-> <<>>, uploads |-> <<>>,
          thisMaterial |-> NoMaterialYet, raised |-> IOErrorMtl]
    ELSE LoadLines(file.lines, 1,
                   [found |-> <<>>, foundTextures |-> <<>>, uploads |-> <<>>,
                    thisMaterial |-> NoMaterialYet, raised |-> None])

\* the lines of the material libraries loaded, and a file that does not
\* exist
One == <<"1">>
Zero == <<"0">>
Half == <<"0", ".", "5">>

LineInputs ==
    { <<"newmtl", "A">>, <<"newmtl", "B">>,
      <<"Ns", <<"3", "2">> >>, <<"Ns", <<"x">> >>,
      <<"Kd", <<One, One, One>> >>,
      <<"Ks", <<Zero, Half, One>> >>,
      <<"Ka", <<Half, Half, Zero>> >>,
      <<"map_Kd", "tex.png">>, <<"map_Kd", "missing.png">>,
      <<"illum", "2">> }

MissingFile == [exists |-> FALSE, lines |-> <<>>]

NotLoaded ==
    [found |-> <<>>, foundTextures |-> <<>>, uploads |-> <<>>,
     thisMaterial |-> NoMaterialYet, raised |-> None]

\* self._loadMtlLib(mtlFile)
LoadMtlLib ==
    /\ loadOp = "init"
    /\ loaded' = _loadMtlLib(mtlFile)
    /\ loadOp' = "_loadMtlLib"
    /\ UNCHANGED <<mtlFile, built, poseVars, algVars, drawVars, matVars,
                   lightVars>>

\* self._loadMtlLib(mtlFile) again
ReloadMtlLib ==
    /\ loadOp # "init"
    /\ loaded' = _loadMtlLib(mtlFile)
    /\ loadOp' = "_loadMtlLib again"
    /\ UNCHANGED <<mtlFile, built, poseVars, algVars, drawVars, matVars,
                   lightVars>>

LoadNext ==
    \/ LoadMtlLib
    \/ ReloadMtlLib

\* the materials of a loaded library as draw() reads them
AsDrawn(found) ==
    [i \in DOMAIN found |->
        [name |-> found[i].name,
         mtl |-> PhongMaterial(found[i].mtl._diffuseTexture, FALSE)]]

\* ObjMeshStim.__init__ with the loading errors caught: the object is
\* returned as it is
ObjMeshStim_init_SwallowsError(objFile, mtlFile_, useMaterial, useShaders) ==
    LET lib == _loadMtlLib(mtlFile_)
    IN  IF ~objFile.exists
        THEN [raised |-> None, self |-> BaseConstructed]
        ELSE IF useMaterial = NoMaterial /\ objFile.model.mtlFile # None
                /\ lib.raised # None
        THEN [raised |-> None, self |-> BaseConstructed]
        ELSE [raised |-> None,
              self |-> ObjMeshStim(objFile.model, AsDrawn(lib.found),
                                   useMaterial, useShaders)]

\* ObjMeshStim.__init__(win, objFile, useMaterial=..., useShaders=...): the
\* exception it raised and the fields of self when it ended.  objFile is
\* what gt.loadObjFile finds, mtlFile_ the library the model names.
ObjMeshStim_init(objFile, mtlFile_, useMaterial, useShaders) ==
    LET lib == _loadMtlLib(mtlFile_)
    IN  IF ~objFile.exists
        THEN [raised |-> IOErrorObj, self |-> BaseConstructed]
        ELSE IF useMaterial = NoMaterial /\ objFile.model.mtlFile # None
                /\ lib.raised # None
        THEN [raised |-> lib.raised, self |-> BaseConstructed]
        ELSE [raised |-> None,
              self |-> ObjMeshStim(objFile.model, AsDrawn(lib.found),
                                   useMaterial, useShaders)]

\* the geometry files: one that cannot be loaded, and the models
ObjFiles ==
    {[exists |-> FALSE, model |-> [mtlFile |-> None, faces |-> {}]]}
    \cup {[exists |-> TRUE, model |-> m] : m \in ObjModels}

\* the libraries next to the geometry files
BuildFiles ==
    {MissingFile}
    \cup {[exists |-> TRUE, lines |-> l] : l \in
            { <<>>,
              << <<"newmtl", "A">> >>,
              << <<"newmtl", "A">>, <<"newmtl", "B">> >>,
              << <<"newmtl", "A">>, <<"map_Kd", "tex.png">> >>,
              << <<"newmtl", "A">>, <<"map_Kd", "missing.png">> >>,
              << <<"newmtl", "A">>, <<"Ns", <<"x">> >> >>,
              << <<"Kd", <<One, One, One>> >> >> }}

NotBuilt ==
    [raised |-> None, self |-> BaseConstructed, ref |-> <<>>,
     objFile |-> [exists |-> TRUE, model |-> [mtlFile |-> None, faces |-> {}]],
     useMaterial |-> <<PhongMaterial(None, FALSE)>>]

\* stim = ObjMeshStim(win, objFile, ...): ref is what the name stim is bound
\* to afterwards, objFile and useMaterial the arguments of the call
Construct ==
    \E objFile \in ObjFiles, file \in BuildFiles,
       useMaterial \in UseMaterials, useShaders \in BOOLEAN :
        \E r \in {ObjMeshStim_init(objFile, file, useMaterial, useShaders)} :
            /\ mtlFile' = file
            /\ built' = [raised |-> r.raised, self |-> r.self,
                         ref |-> IF r.raised = None
                                 THEN <<r.self>> ELSE <<>>,
                         objFile |-> objFile, useMaterial |-> useMaterial]
            /\ loadOp' = "ObjMeshStim"
            /\ stim' = BaseConstructed
            /\ stimOp' = "init"
            /\ glCalls' = <<>> /\ shaderKeys' = <<>> /\ raised' = None
            /\ UNCHANGED <<loaded, _material_shaders_, winLights, winDraw3d,
                           glStackDepth, poseVars, algVars, matVars,
                           lightVars>>

\* stim.draw(), of the stimulus the last construction bound
DrawBuilt ==
    /\ built.ref # <<>>
    /\ \E r \in {ObjMeshStim_draw(built.ref[1], thePose, winLights,
                                  _material_shaders_)} :
        /\ glStackDepth + r.depth <= MaxStackDepth
        /\ stim' = built.ref[1]
        /\ glCalls' = r.calls
        /\ shaderKeys' = r.keys
        /\ raised' = r.raised
        /\ winDraw3d' = r.draw3d
        /\ glStackDepth' = glStackDepth + r.depth
        /\ thePose' = r.pose
        /\ stimOp' = "draw"
        /\ loadOp' = "draw"
        /\ UNCHANGED <<lastOp, prevOp, returned, lastFwd, nFwdReads, nFwd,
                       nInv, poseRaised, _material_shaders_, winLights, mtlFile, loaded,
                       built, algVars, matVars, lightVars>>

BuildNext ==
    \/ Construct
    \/ DrawBuilt

----------------------------------------------------------------------------
(* Specifications. *)

\* a pose, a pair of operands and a stimulus that a specification leaves alone
IdlePose == RigidBodyPose(<<0, 0, 0>>, IdentityOri)
IdleStim == BaseRigidBodyStim(0, 1, FALSE)

\* a pose constructed from any of the inputs
InitPose ==
    /\ thePose \in {RigidBodyPose(p, q) : p \in PosInputs, q \in OriInputs}
    /\ lastOp = "init" /\ prevOp = "init"
    /\ returned = None
    /\ lastFwd = None
    /\ nFwdReads = 0 /\ nFwd = 0 /\ nInv = 0
    /\ poseRaised = None
    /\ operand = IdlePose
    /\ otherPose = IdlePose
    /\ product = None
    /\ algOp = "init"
    /\ algRaised = None
    /\ _material_shaders_ = CompiledShaders
    /\ winLights = 0
    /\ winDraw3d = FALSE
    /\ glStackDepth = 0
    /\ stim = IdleStim
    /\ stimOp = "init"
    /\ glCalls = <<>>
    /\ shaderKeys = <<>>
    /\ raised = None
    /\ theMaterial = DefaultMaterial
    /\ matOp = "init"
    /\ theLight = LightSource(<<0, 0, 0>>, "point")
    /\ lightOp = "init"
    /\ lightRaised = None
    /\ lightReturned = NotRead
    /\ mtlFile = MissingFile
    /\ loaded = NotLoaded
    /\ built = NotBuilt
    /\ loadOp = "init"

\* an operand P constructed from any position and any unit quaternion
InitAlgebra ==
    /\ thePose = IdlePose
    /\ lastOp = "init" /\ prevOp = "init"
    /\ returned = None
    /\ lastFwd = None
    /\ nFwdReads = 0 /\ nFwd = 0 /\ nInv = 0
    /\ poseRaised = None
    /\ operand \in {RigidBodyPose(p, q) : p \in Positions, q \in UnitQuats}
    /\ otherPose \in OtherPoses
    /\ product = None
    /\ algOp = "init"
    /\ algRaised = None
    /\ _material_shaders_ = CompiledShaders
    /\ winLights = 0
    /\ winDraw3d = FALSE
    /\ glStackDepth = 0
    /\ stim = IdleStim
    /\ stimOp = "init"
    /\ glCalls = <<>>
    /\ shaderKeys = <<>>
    /\ raised = None
    /\ theMaterial = DefaultMaterial
    /\ matOp = "init"
    /\ theLight = LightSource(<<0, 0, 0>>, "point")
    /\ lightOp = "init"
    /\ lightRaised = None
    /\ lightReturned = NotRead
    /\ mtlFile = MissingFile
    /\ loaded = NotLoaded
    /\ built = NotBuilt
    /\ loadOp = "init"

\* the module imported, a window with some lights, a stimulus constructed
InitDraw ==
    /\ thePose = IdlePose
    /\ lastOp = "init" /\ prevOp = "init"
    /\ returned = None
    /\ lastFwd = None
    /\ nFwdReads = 0 /\ nFwd = 0 /\ nInv = 0
    /\ poseRaised = None
    /\ operand = IdlePose
    /\ otherPose = IdlePose
    /\ product = None
    /\ algOp = "init"
    /\ algRaised = None
    /\ _material_shaders_ = CompiledShaders
    /\ winLights \in LightCounts
    /\ winDraw3d = FALSE
    /\ glStackDepth = 0
    /\ stim \in NewStims
    /\ stimOp = "init"
    /\ glCalls = <<>>
    /\ shaderKeys = <<>>
    /\ raised = None
    /\ theMaterial = DefaultMaterial
    /\ matOp = "init"
    /\ theLight = LightSource(<<0, 0, 0>>, "point")
    /\ lightOp = "init"
    /\ lightRaised = None
    /\ lightReturned = NotRead
    /\ mtlFile = MissingFile
    /\ loaded = NotLoaded
    /\ built = NotBuilt
    /\ loadOp = "init"

\* a material constructed with any of the colours, opacities and contrasts
InitMaterial ==
    /\ thePose = IdlePose
    /\ lastOp = "init" /\ prevOp = "init"
    /\ returned = None
    /\ lastFwd = None
    /\ nFwdReads = 0 /\ nFwd = 0 /\ nInv = 0
    /\ poseRaised = None
    /\ operand = IdlePose
    /\ otherPose = IdlePose
    /\ product = None
    /\ algOp = "init"
    /\ algRaised = None
    /\ _material_shaders_ = CompiledShaders
    /\ winLights = 0
    /\ winDraw3d = FALSE
    /\ glStackDepth = 0
    /\ stim = IdleStim
    /\ stimOp = "init"
    /\ glCalls = <<>>
    /\ shaderKeys = <<>>
    /\ raised = None
    /\ theMaterial \in
        {PhongMaterialColors(d, DefaultSpecular, DefaultAmbient,
                             DefaultEmission, DefaultShininess, o, c) :
            d \in ColorInputs \cup {DefaultDiffuse},
            o \in OpacityInputs, c \in ContrastInputs}
    /\ matOp = "init"
    /\ theLight = LightSource(<<0, 0, 0>>, "point")
    /\ lightOp = "init"
    /\ lightRaised = None
    /\ lightReturned = NotRead
    /\ mtlFile = MissingFile
    /\ loaded = NotLoaded
    /\ built = NotBuilt
    /\ loadOp = "init"

\* a light constructed at any of the positions with any light type
InitLight ==
    /\ thePose = IdlePose
    /\ lastOp = "init" /\ prevOp = "init"
    /\ returned = None
    /\ lastFwd = None
    /\ nFwdReads = 0 /\ nFwd = 0 /\ nInv = 0
    /\ poseRaised = None
    /\ operand = IdlePose
    /\ otherPose = IdlePose
    /\ product = None
    /\ algOp = "init"
    /\ algRaised = None
    /\ _material_shaders_ = CompiledShaders
    /\ winLights = 0
    /\ winDraw3d = FALSE
    /\ glStackDepth = 0
    /\ stim = IdleStim
    /\ stimOp = "init"
    /\ glCalls = <<>>
    /\ shaderKeys = <<>>
    /\ raised = None
    /\ theMaterial = DefaultMaterial
    /\ matOp = "init"
    /\ theLight \in {LightSource(p, t) : p \in LightPosInputs, t \in LightTypes}
    /\ lightOp = "init"
    /\ lightRaised = None
    /\ lightReturned = NotRead
    /\ mtlFile = MissingFile
    /\ loaded = NotLoaded
    /\ built = NotBuilt
    /\ loadOp = "init"

\* a library of at most MaxLines of the lines, or one that does not exist,
\* not yet loaded
InitLoad ==
    /\ thePose = IdlePose
    /\ lastOp = "init" /\ prevOp = "init"
    /\ returned = None
    /\ lastFwd = None
    /\ nFwdReads = 0 /\ nFwd = 0 /\ nInv = 0
    /\ poseRaised = None
    /\ operand = IdlePose
    /\ otherPose = IdlePose
    /\ product = None
    /\ algOp = "init"
    /\ algRaised = None
    /\ _material_shaders_ = CompiledShaders
    /\ winLights = 0
    /\ winDraw3d = FALSE
    /\ glStackDepth = 0
    /\ stim = IdleStim
    /\ stimOp = "init"
    /\ glCalls = <<>>
    /\ shaderKeys = <<>>
    /\ raised = None
    /\ theMaterial = DefaultMaterial
    /\ matOp = "init"
    /\ theLight = LightSource(<<0, 0, 0>>, "point")
    /\ lightOp = "init"
    /\ lightRaised = None
    /\ lightReturned = NotRead
    /\ \/ mtlFile = MissingFile
       \/ \E n \in 0..MaxLines :
            \E l \in [1..n -> LineInputs] :
                mtlFile = [exists |-> TRUE, lines |-> l]
    /\ loaded = NotLoaded
    /\ built = NotBuilt
    /\ loadOp = "init"

\* a window with some lights and no stimulus yet
InitBuild ==
    /\ thePose = IdlePose
    /\ lastOp = "init" /\ prevOp = "init"
    /\ returned = None
    /\ lastFwd = None
    /\ nFwdReads = 0 /\ nFwd = 0 /\ nInv = 0
    /\ poseRaised = None
    /\ operand = IdlePose
    /\ otherPose = IdlePose
    /\ product = None
    /\ algOp = "init"
    /\ algRaised = None
    /\ _material_shaders_ = CompiledShaders
    /\ winLights \in {0, 1}
    /\ winDraw3d = FALSE
    /\ glStackDepth = 0
    /\ stim = IdleStim
    /\ stimOp = "init"
    /\ glCalls = <<>>
    /\ shaderKeys = <<>>
    /\ raised = None
    /\ theMaterial = DefaultMaterial
    /\ matOp = "init"
    /\ theLight = LightSource(<<0, 0, 0>>, "point")
    /\ lightOp = "init"
    /\ lightRaised = None
    /\ lightReturned = NotRead
    /\ mtlFile = MissingFile
    /\ loaded = NotLoaded
    /\ built = NotBuilt
    /\ loadOp = "init"

\* the life of one material: construction, then assignments to its colours,
\* opacity and contrast
SpecMaterial == InitMaterial /\ [][MaterialNext]_vars

\* the life of one light
SpecLight == InitLight /\ [][LightNext]_vars

\* a pose that is assigned to and whose inverse matrix is read
SpecInverseProperty == InitPose /\ [][InversePropertyNext]_vars

\* _loadMtlLib applied to every library of the bounded set
SpecLoad == InitLoad /\ [][LoadNext]_vars

\* mesh stimuli constructed from files and drawn
SpecBuild == InitBuild /\ [][BuildNext]_vars

\* the life of one pose: construction, then any sequence of its operations
SpecPose == InitPose /\ [][PoseNext]_vars

\* the pose operators applied to every pose of the bounded sets
SpecAlgebra == InitAlgebra /\ [][AlgNext]_vars

\* the life of one stimulus in its window
SpecDraw == InitDraw /\ [][DrawNext]_vars

----------------------------------------------------------------------------
(* Properties of the pose. *)

CurrentModelMatrix == posOriToMatrix(thePose._pos, thePose._ori)

\* C1: a forward matrix read returns the matrix of the pose's current pos and
\* ori, whatever operations came before it: never a stale cached matrix.
C1_ForwardReadIsCurrent ==
    lastOp \in ForwardReads => returned = CurrentModelMatrix

\* C2: getModelMatrix(inverse=True) returns the inverse of the model matrix
\* of the current pos and ori, also on a freshly constructed pose.
C2_InverseReadIsInverse ==
    lastOp = "getModelMatrixInverse"
        => IsInverseOf(returned, CurrentModelMatrix)

\* C3: a forward read that follows another forward read, with no assignment
\* to pos or ori between the two, returns the same matrix as the earlier one
\* and recomputes nothing.
C3_SecondReadHitsCache ==
    [][(lastOp' \in ForwardReads /\ nFwdReads >= 1)
            => (returned' = lastFwd /\ nFwd' = nFwd)]_vars

C3_Witness ==
    /\ prevOp = "getModelMatrix" /\ lastOp = "getModelMatrix"
    /\ nFwdReads = 2 /\ nFwd = 1
    /\ returned = CurrentModelMatrix

\* C4: assigning pos and then calling getModelMatrix(inverse=True) computes
\* the forward matrix exactly once and the inverse matrix exactly once, and
\* leaves both dirty flags clear.
C4_AssignThenInverseRead ==
    (prevOp = "pos" /\ lastOp = "getModelMatrixInverse")
        => /\ nFwd = 1
           /\ nInv = 1
           /\ ~thePose._matrixNeedsUpdate
           /\ ~thePose._invMatrixNeedsUpdate

C4_Witness ==
    /\ prevOp = "pos" /\ lastOp = "getModelMatrixInverse"
    /\ nFwd = 1 /\ nInv = 1
    /\ thePose._pos # <<0, 0, 0>>
    /\ IsInverseOf(returned, CurrentModelMatrix)

\* C5: a forward read (getModelMatrix(inverse=False) or the modelMatrix
\* property) computes no inverse and leaves the inverse cache and its dirty
\* flag as they were; once set, the inverse dirty flag stays set until an
\* inverse read, however many forward reads come first.
C5_ForwardReadLeavesInverse ==
    [][/\ lastOp' \in ForwardReads
            => /\ nInv' = nInv
               /\ thePose'._invModelMatrix = thePose._invModelMatrix
               /\ thePose'._invMatrixNeedsUpdate
                    = thePose._invMatrixNeedsUpdate
       /\ (thePose._invMatrixNeedsUpdate
                /\ lastOp' # "getModelMatrixInverse")
            => thePose'._invMatrixNeedsUpdate]_vars

C5_Witness ==
    /\ prevOp \in ForwardReads /\ lastOp \in ForwardReads
    /\ nFwd = 1 /\ nInv = 0
    /\ thePose._invMatrixNeedsUpdate
    /\ ~thePose._matrixNeedsUpdate

\* C6: for every position p and unit quaternion q, with P = RigidBodyPose(p,
\* q), both ~P * P and P * ~P are the identity pose: pos = (0, 0, 0) and
\* ori = (0, 0, 0, 1).
C6_InverseProductIsIdentity ==
    algOp \in {"~P * P", "P * ~P"}
        => /\ product._pos = <<0, 0, 0>>
           /\ product._ori = IdentityOri

C6_Witness ==
    /\ algOp = "~P * P"
    /\ operand._pos = <<1, -1, 1>>
    /\ operand._ori = <<1, 1, -1, 1>>
    /\ product._pos = <<0, 0, 0>>
    /\ product._ori = IdentityOri

----------------------------------------------------------------------------
(* Properties of draw() and of the shader table. *)

LightRange == 1..MAX_LIGHTS

\* the stimulus has buffers attached, so that draw() draws
HasBuffers == stim.cls = "ObjMeshStim" \/ stim._vao # None

IsUseProgram(call) == call[1] = "useProgram" /\ call[2] # 0

\* the shader programs the last draw() made current, in order
ProgramsUsed ==
    LET used == SelectSeq(glCalls, IsUseProgram)
    IN  [i \in DOMAIN used |-> used[i][2]]

\* the materials draw() binds, in order
BoundMaterials ==
    [i \in DOMAIN stim.material |->
        IF stim.materialType = "dict"
        THEN stim.material[i].mtl ELSE stim.material[i]]

HasDiffuseTexture(mtl) == mtl._diffuseTexture # None

\* C7: with shading enabled and a material present, whatever the number of
\* lights of the window, every light count draw() looks a shader up with
\* lies in 1..MAX_LIGHTS, and the lookup does not fail.
C7_LightCountClamped ==
    (stimOp = "draw" /\ stim._useShaders /\ stim.materialType # "None")
        => /\ \A i \in DOMAIN shaderKeys : shaderKeys[i][1] \in LightRange
           /\ raised # KeyErrorShader

\* C8: with shading enabled and a material present, a draw() that completes
\* has used, for each material it bound, the textured shader of the light
\* count exactly when that material has a diffuse texture, and the
\* untextured shader exactly when it has none.
C8_TexturedVariantIffTexture ==
    (stimOp = "draw" /\ raised = None /\ HasBuffers /\ stim._useShaders
            /\ stim.materialType # "None")
        => ProgramsUsed =
             [i \in DOMAIN stim.material |->
                _material_shaders_[
                    <<winLights, HasDiffuseTexture(BoundMaterials[i])>>]]

\* C9: a draw() of a stimulus with a buffer, no material and shading enabled,
\* under 1..MAX_LIGHTS lights, looks up a key of the shader table (the
\* untextured variant of the light count), passes the stimulus's colour and
\* opacity, issues the draw call and does not fail.
C9_NoMaterialShaderDraw ==
    (stimOp = "draw" /\ stim.cls # "ObjMeshStim" /\ stim._vao # None
            /\ stim.materialType = "None" /\ stim._useShaders
            /\ winLights \in LightRange)
        => /\ raised = None
           /\ \A i \in DOMAIN shaderKeys :
                shaderKeys[i] \in DOMAIN _material_shaders_
           /\ ProgramsUsed = <<_material_shaders_[<<winLights, FALSE>>]>>
           /\ \E i \in DOMAIN glCalls :
                glCalls[i] = <<"glMaterialfv", "GL_DIFFUSE", stim.color,
                               stim.opacity>>
           /\ \E i \in DOMAIN glCalls : glCalls[i] = <<"drawVAO", stim._vao>>

\* C10: in every state the shader table has exactly MAX_LIGHTS * 2 entries:
\* one for every (n, t) with n in 1..MAX_LIGHTS and t a boolean, and no other
\* key; no operation on a stimulus, material, pose or window changes it.
C10_ShaderTableComplete ==
    /\ DOMAIN _material_shaders_ = LightRange \X BOOLEAN
    /\ Cardinality(DOMAIN _material_shaders_) = MAX_LIGHTS * 2

C10_Witness ==
    /\ stimOp = "draw" /\ raised = None
    /\ winLights = MAX_LIGHTS
    /\ stim.cls = "ObjMeshStim"
    /\ Len(ProgramsUsed) = 2
    /\ ProgramsUsed[1] = _material_shaders_[<<MAX_LIGHTS, FALSE>>]
    /\ Cardinality(DOMAIN _material_shaders_) = MAX_LIGHTS * 2

----------------------------------------------------------------------------
(* Properties of the material colours. *)

\* C11: after any sequence of assignments to the four colours, opacity and
\* contrast of a material, each device-space colour is
\* (sourceColour * contrast + 1) / 2 with alpha the opacity, for the current
\* contrast and opacity.
C11_DeviceColoursCurrent ==
    LET c == theMaterial.contrast
        o == theMaterial.opacity
    IN  /\ theMaterial._diffuseRGB = DeviceRGB(theMaterial._diffuseColor, c, o)
        /\ theMaterial._specularRGB =
               DeviceRGB(theMaterial._specularColor, c, o)
        /\ theMaterial._ambientRGB = DeviceRGB(theMaterial._ambientColor, c, o)
        /\ theMaterial._emissionRGB =
               DeviceRGB(theMaterial._emissionColor, c, o)

----------------------------------------------------------------------------
(* Properties of draw(), continued. *)

\* C12: a draw() of a stimulus with no buffer attached makes no GL call,
\* looks no shader up, raises nothing and leaves win.draw3d and the matrix
\* stack as they were, whatever the material, the shader setting and the
\* number of lights.
C12_UnboundDrawIsNoOp ==
    [][(stimOp' = "draw" /\ ~HasBuffers)
        => /\ glCalls' = <<>>
           /\ shaderKeys' = <<>>
           /\ raised' = None
           /\ winDraw3d' = winDraw3d
           /\ glStackDepth' = glStackDepth]_vars

C12_Witness ==
    /\ stimOp = "draw"
    /\ ~HasBuffers
    /\ stim.materialType = "PhongMaterial"
    /\ stim._useShaders
    /\ winLights = 0
    /\ glCalls = <<>>
    /\ raised = None

IsDrawVAO(call) == call[1] = "drawVAO"

\* the buffers the last draw() drew, in order
BuffersDrawn ==
    LET drawn == SelectSeq(glCalls, IsDrawVAO)
    IN  [i \in DOMAIN drawn |-> drawn[i][2]]

\* C13: a draw() of a mesh with a material library ends without error and
\* draws each buffer created at load time (one per face group) exactly once,
\* whichever materials the library declares and the faces use.  (The light
\* count is one the shader table has, or shading is off.)
C13_OneDrawPerBuffer ==
    (/\ stimOp = "draw"
     /\ stim.cls = "ObjMeshStim"
     /\ stim.materialType = "dict"
     /\ (winLights \in LightRange \/ ~stim._useShaders))
        => /\ raised = None
           /\ \A name \in DOMAIN stim._vao :
                Cardinality({i \in DOMAIN BuffersDrawn :
                                BuffersDrawn[i] = stim._vao[name]}) = 1
           /\ Len(BuffersDrawn) = Cardinality(DOMAIN stim._vao)

\* C14: a mesh built from a geometry file that names no material library,
\* with no material given, has the one default material, and its draw() ends
\* without error having drawn its buffers.  (The light count is one the
\* shader table has, or shading is off.)
C14_DefaultMaterialMeshDraws ==
    (/\ stimOp = "draw"
     /\ stim.cls = "ObjMeshStim"
     /\ stim.materialType = "PhongMaterial"
     /\ stim.material = <<PhongMaterial(None, FALSE)>>
     /\ (winLights \in LightRange \/ ~stim._useShaders))
        => /\ raised = None
           /\ Len(BuffersDrawn) = Cardinality(DOMAIN stim._vao)

\* C18: when a draw() has returned control, normally or with an exception,
\* the transform it pushed has been popped: no push of a draw() is left on
\* the matrix stack.
C18_TransformPopped == glStackDepth = 0

----------------------------------------------------------------------------
(* Properties of the light. *)

C16_LightTypeValid == theLight._lightType \in {"point", "directional"}

\* (value + 1) / 2 of a source colour, with alpha 1
LightDeviceRGB(value) == <<value[1] + 2, value[2] + 2, value[3] + 2, 4>>

\* C17: the diffuse, the specular and the ambient device-space colour of a
\* light are each (value + 1) / 2 of the source colour, with alpha 1.
C17_LightDeviceColours ==
    /\ theLight._diffuseRGB = LightDeviceRGB(theLight._diffuseColor)
    /\ theLight._specularRGB = LightDeviceRGB(theLight._specularColor)
    /\ theLight._ambientRGB = LightDeviceRGB(theLight._ambientColor)

----------------------------------------------------------------------------
(* Properties of loading. *)

\* the stimulus has no buffers attached
Unbound(s) == s.cls = "BaseRigidBodyStim" /\ s._vao = None

\* loading fails for the arguments of the last construction
LoadFails ==
    \/ ~built.objFile.exists
    \/ /\ built.useMaterial = NoMaterial
       /\ built.objFile.model.mtlFile # None
       /\ _loadMtlLib(mtlFile).raised # None

\* C19: when the geometry file, the material library or a texture it names
\* cannot be loaded, the constructor raises, the stimulus has no buffers and
\* no name is bound to it, and no draw() of it is ever made.
C19_FailedLoadNeverDrawn ==
    /\ (loadOp = "ObjMeshStim" /\ LoadFails)
        => /\ built.raised # None
           /\ built.ref = <<>>
           /\ Unbound(built.self)
    /\ loadOp = "draw" => (~LoadFails /\ built.ref = <<stim>>)

C19_Witness ==
    /\ loadOp = "ObjMeshStim"
    /\ built.raised = IOErrorTexture
    /\ built.ref = <<>>

\* the number a text of a library stands for, in halves
NumberOf(text) ==
    CASE text = <<"3", "2">> -> 64
      [] text = One -> 2
      [] text = Half -> 1
      [] text = Zero -> 0

IsKnown(line) == line[1] \in {"newmtl", "Ns", "Ks", "Kd", "Ka", "map_Kd"}

\* the line that declares the material name for the last time
DeclOf(name) ==
    CHOOSE j \in DOMAIN mtlFile.lines :
        /\ mtlFile.lines[j] = <<"newmtl", name>>
        /\ \A k \in DOMAIN mtlFile.lines :
            mtlFile.lines[k] = <<"newmtl", name>> => k <= j

\* the last line with the directive in the block of lines under the
\* declaration at line j (0: there is none)
LastOf(directive, j) ==
    LET block == {k \in DOMAIN mtlFile.lines :
                    /\ k > j
                    /\ mtlFile.lines[k][1] = directive
                    /\ \A h \in (j + 1)..k : mtlFile.lines[h][1] # "newmtl"}
    IN  IF block = {} THEN 0
        ELSE CHOOSE k \in block : \A h \in block : h <= k

\* 2 * v - 1 of the components of a colour line, or the default
SourceOf(directive, j, default) ==
    LET k == LastOf(directive, j)
        texts == mtlFile.lines[k][2]
    IN  IF k = 0 THEN default
        ELSE <<2 * NumberOf(texts[1]) - 2, 2 * NumberOf(texts[2]) - 2,
               2 * NumberOf(texts[3]) - 2>>

\* C20: a library that loads gives one material for each name declared by a
\* newmtl line, under that name; its shininess is the number of its Ns line
\* and its diffuse, specular and ambient colours are 2 * v - 1 of its Kd, Ks
\* and Ka lines (device-space colours following); lines with a directive
\* that is not recognised change nothing.
C20_LibraryLoaded ==
    (loadOp # "init" /\ loaded.raised = None)
        => /\ {loaded.found[i].name : i \in DOMAIN loaded.found}
                = {mtlFile.lines[j][2] :
                     j \in {h \in DOMAIN mtlFile.lines :
                              mtlFile.lines[h][1] = "newmtl"}}
           /\ \A i, j \in DOMAIN loaded.found :
                loaded.found[i].name = loaded.found[j].name => i = j
           /\ \A i \in DOMAIN loaded.found :
                LET mtl == loaded.found[i].mtl
                    j == DeclOf(loaded.found[i].name)
                    ns == LastOf("Ns", j)
                IN  /\ mtl._shininess =
                        IF ns = 0 THEN DefaultShininess
                        ELSE NumberOf(mtlFile.lines[ns][2])
                    /\ mtl._diffuseColor = SourceOf("Kd", j, DefaultDiffuse)
                    /\ mtl._specularColor = SourceOf("Ks", j, DefaultSpecular)
                    /\ mtl._ambientColor = SourceOf("Ka", j, DefaultAmbient)
                    /\ mtl._diffuseRGB = DeviceRGB(mtl._diffuseColor, 1, 1)
                    /\ mtl._specularRGB = DeviceRGB(mtl._specularColor, 1, 1)
                    /\ mtl._ambientRGB = DeviceRGB(mtl._ambientColor, 1, 1)
           /\ loaded.found =
                _loadMtlLib([mtlFile EXCEPT
                                !.lines = SelectSeq(mtlFile.lines, IsKnown)]
                           ).found

\* newmtl A, Kd 1 1 1, Ns 32: the material A with shininess 32 and the
\* device-space diffuse colour (1, 1, 1)
C20_Witness ==
    /\ loadOp = "_loadMtlLib"
    /\ mtlFile.lines = << <<"newmtl", "A">>, <<"Kd", <<One, One, One>> >>,
                          <<"Ns", <<"3", "2">> >> >>
    /\ loaded.raised = None
    /\ Len(loaded.found) = 1
    /\ loaded.found[1].name = "A"
    /\ loaded.found[1].mtl._shininess = 64
    /\ loaded.found[1].mtl._diffuseRGB = <<4, 4, 4, 4>>

\* C21: within one load of a library, the image of a map_Kd file name is
\* decoded and uploaded at most once, and the materials that name the same
\* file hold the same texture handle.
C21_TextureLoadedOnce ==
    loadOp # "init"
        => /\ \A i, j \in DOMAIN loaded.uploads :
                loaded.uploads[i] = loaded.uploads[j] => i = j
           /\ loaded.raised = None
                => \A i, j \in DOMAIN loaded.found :
                    LET a == LastOf("map_Kd", DeclOf(loaded.found[i].name))
                        b == LastOf("map_Kd", DeclOf(loaded.found[j].name))
                    IN  (/\ a # 0 /\ b # 0
                         /\ mtlFile.lines[a][2] = mtlFile.lines[b][2])
                            => /\ loaded.found[i].mtl._diffuseTexture # None
                               /\ loaded.found[i].mtl._diffuseTexture
                                    = loaded.found[j].mtl._diffuseTexture

C21_Witness ==
    /\ loadOp = "_loadMtlLib"
    /\ mtlFile.lines = << <<"newmtl", "A">>, <<"map_Kd", "tex.png">>,
                          <<"newmtl", "B">>, <<"map_Kd", "tex.png">> >>
    /\ loaded.raised = None
    /\ loaded.uploads = <<"tex.png">>
    /\ loaded.found[1].mtl._diffuseTexture = "tex"
    /\ loaded.found[2].mtl._diffuseTexture = "tex"

\* the component-wise sum of two positions
VecAdd(a, b) == <<a[1] + b[1], a[2] + b[2], a[3] + b[3]>>

\* C22: a * b returns a new pose whose pos is a.pos + b.pos, the plain sum of
\* the vectors with b.pos not rotated by a.ori, and whose ori is
\* multQuat(a.ori, b.ori); the pos, ori, cached matrices and dirty flags of
\* both operands are left as they were.
C22_ProductOfPoses ==
    [][algOp' = "a * b"
        => /\ product'._pos = VecAdd(operand._pos, otherPose._pos)
           /\ product'._ori = multQuat(operand._ori, otherPose._ori)
           /\ operand' = operand
           /\ otherPose' = otherPose]_algOp

C22_Witness ==
    /\ algOp = "a * b"
    /\ operand._pos = <<1, -1, 1>>
    /\ operand._ori = <<1, 1, -1, 1>>
    /\ otherPose._pos = <<1, 0, -1>>
    /\ otherPose._ori = <<2, 0, 0, 0>>
    /\ otherPose._matrixNeedsUpdate
    /\ otherPose._invMatrixNeedsUpdate
    /\ product._pos = <<2, -1, 0>>
    /\ product._ori = multQuat(<<1, 1, -1, 1>>, <<2, 0, 0, 0>>)
    /\ product._ori # multQuat(<<2, 0, 0, 0>>, <<1, 1, -1, 1>>)

\* every component of the pos and of the ori of the two poses is close
AllClose(a, b) ==
    /\ \A i \in 1..3 : isclose(a._pos[i], b._pos[i], 1)
    /\ \A i \in 1..4 : isclose(a._ori[i], b._ori[i], 2)

\* C23: isEqual(other) returns a boolean for every pair of poses, True when
\* every component of pos and of ori is close and False otherwise; it never
\* raises.
C23_IsEqualReturnsBool ==
    algOp = "isEqual"
        => /\ algRaised = None
           /\ product = AllClose(operand, otherPose)

\* C25: a read of the inverseModelMatrix property returns the inverse of the
\* model matrix of the pose's current pos and ori, and does not raise.
C25_InversePropertyIsInverse ==
    lastOp = "inverseModelMatrix"
        => /\ poseRaised = None
           /\ returned = invertMatrix(CurrentModelMatrix)

\* C24: in a draw() of a mesh with a material library that returns, every
\* group's material is bound before the group's draw call and unbound after
\* it: each useMaterial is followed by the draw call and by a clearMaterial of
\* the same material before the next useMaterial or the return.
C24_MaterialBoundPerGroup ==
    (/\ stimOp = "draw"
     /\ stim.cls = "ObjMeshStim"
     /\ stim.materialType = "dict"
     /\ raised = None)
        => \A i \in DOMAIN glCalls :
            glCalls[i][1] = "useMaterial"
                => \E j \in (i + 1)..Len(glCalls) :
                    /\ glCalls[j][1] = "clearMaterial"
                    /\ glCalls[j][2] = glCalls[i][2]
                    /\ \A k \in (i + 1)..(j - 1) :
                            glCalls[k][1] # "useMaterial"
                    /\ \E k \in (i + 1)..(j - 1) : IsDrawVAO(glCalls[k])

\* C27: when a draw() has returned control, the window's draw3d flag is
\* False, whichever kind of stimulus was drawn.
C27_Draw3dClearedAfterDraw == stimOp = "draw" => ~winDraw3d
\* C26: a read of lightType returns the light type, 'point' or 'directional',
\* that the constructor or the last successful assignment to lightType set.
C26_LightTypeReadBack ==
    (/\ lightOp = "get lightType"
     /\ theLight._lightType \in {"point", "directional"})
        => /\ lightReturned.type = "str"
           /\ lightReturned.value = theLight._lightType

====
